---- MODULE Spec2Model ----
(***************************************************************************)
(* A model of the global-ref crate (src/src/lib.rs): the two cells         *)
(* GlobalRef<T> and GlobalMut<T>, each a OnceCell<Mutex<Option<usize>>>,   *)
(* driven by threads that call set, clear, with, get, try_get, get_mut and *)
(* try_get_mut.  Every call is split at the points where another thread    *)
(* can interleave: the OnceCell access, the Mutex lock, the guarded slot   *)
(* access (which ends with the guard's drop), and the use of the returned  *)
(* reference.  T is i32, as in the crate's tests.                          *)
(***************************************************************************)
EXTENDS Integers, Naturals, Sequences, FiniteSets, TLC

\* ------------------------------------------------------------- bounds
\* Number of distinct externally owned i32 values a caller may register.
NumItems == 2
\* How many `with` calls a thread may be inside at once (with inside the
\* closure of with).
MaxDepth == 2
\* How many `*r += 1` the threads start in one run, over all addresses.
MaxIncs == 2

\* The thread of the test function and the thread it spawns
\* (tests::multi_thread).
Threads == {"main", "spawned"}
\* The owner of a Mutex nobody holds.
NoThread == "nobody"
\* The address of item a is a itself; a reference is never null, so 0 is not
\* an address.
Addr == 1..NumItems

\* The values a closure given to with can return (the R of with<R>).
Results == {0, 1}

\* The two cell types of the crate; a static of each can be declared.
Cells == {"GlobalRef", "GlobalMut"}

\* ------------------------------------------------------------- values
\* Option<usize>
None == [some |-> FALSE, val |-> 0]
Some(p) == [some |-> TRUE, val |-> p]

\* OnceCell<Mutex<Option<usize>>>: OnceCell::new() is the empty OnceCell,
\* and `None.into()` is a Mutex holding None.
OnceCellNew == [init |-> FALSE, data |-> None]
MutexOf(d) == [init |-> TRUE, data |-> d]

\* What a finished call hands back to its caller.
\*   pending : a call is in progress      unit  : () from set / clear
\*   res     : the R returned by with
\*   None    : Option::None               panic : the call unwound
\*   ref     : Some(&T) or &T at addr     mut   : Some(&mut T) or &mut T
Ret(k, a) == [kind |-> k, addr |-> a]
RetNone == Ret("None", 0)
RetUnit == Ret("unit", 0)
RetPanic == Ret("panic", 0)
RetPending == Ret("pending", 0)
RetStart == Ret("start", 0)

NoOp == [name |-> "none", cell |-> "none", item |-> 0, via |-> "direct"]
Op(n, c, a, v) == [name |-> n, cell |-> c, item |-> a, via |-> v]

Writers == {"set", "clear"}
Readers == {"try_get", "get", "try_get_mut", "get_mut"}
Failing == {"get", "get_mut"}
Mutable == {"try_get_mut", "get_mut"}
\* GlobalRef has no get_mut / try_get_mut.
ReadersOf(c) == IF c = "GlobalMut" THEN Readers ELSE {"try_get", "get"}

VARIABLES
    statics,    \* the cells the program declares as statics
    inner,      \* inner[c]: the OnceCell of cell c and the Option in its Mutex
    owner,      \* owner[c]: the thread holding c's Mutex, NoThread when free
    poisoned,   \* poisoned[c]: c's Mutex is poisoned
    mem,        \* mem[a]: the i32 stored at address a (owned by the caller)
    pc,         \* pc[t]: where thread t is inside its current call
    op,         \* op[t]: the call thread t is executing
    wstack,     \* wstack[t]: the cells of the `with` calls thread t is
                \* inside, outermost first (with never reads `item` again
                \* after its set, so a frame is its `self`)
    ret,        \* ret[t]: the result of t's last finished call
    tmp,        \* tmp[t]: the value t loaded in `*r += 1`
    incs,       \* incs[a]: how many `*r += 1` have finished on address a
    reg,        \* reg[c]: the argument of the last finished set on c that no
                \* finished clear has followed (history; no action reads it)
    held        \* held[t]: the item of t's innermost with, while no set or
                \* clear on that cell has finished since the set of that
                \* with; None otherwise (history; no action reads it)

vars == <<statics, inner, owner, poisoned, mem, pc, op, wstack, ret, tmp, incs, reg, held>>

\* The state of a program that declares the statics S: `GlobalRef::new()` /
\* `GlobalMut::new()` for the cells, every registered i32 initially 0.
InitWith(S) ==
    /\ statics = S
    /\ inner = [c \in Cells |-> OnceCellNew]
    /\ owner = [c \in Cells |-> NoThread]
    /\ poisoned = [c \in Cells |-> FALSE]
    /\ mem = [a \in Addr |-> 0]
    /\ pc = [t \in Threads |-> "idle"]
    /\ op = [t \in Threads |-> NoOp]
    /\ wstack = [t \in Threads |-> <<>>]
    /\ ret = [t \in Threads |-> RetStart]
    /\ tmp = [t \in Threads |-> 0]
    /\ incs = [a \in Addr |-> 0]
    /\ reg = [c \in Cells |-> None]
    /\ held = [t \in Threads |-> None]

\* A program with one static cell, of either type.
Init == \E c \in Cells : InitWith({c})

\* ------------------------------------------------------------- helpers
\* A cast that yields the address of another value.
PtrToUsizeWrong(a) == (a % NumItems) + 1

\* `item as *const T as usize`
PtrToUsize(a) == a

\* `(p as *const T).as_ref()`: None for the null pointer, else the reference.
AsRef(p) == IF p = 0 THEN RetNone ELSE Ret("ref", p)
\* `(p as *mut T).as_mut()`
AsMut(p) == IF p = 0 THEN RetNone ELSE Ret("mut", p)

\* `inner.and_then(|p| ...)` on the Option in the Mutex; n is the function
\* that looks.
AndThen(o, n) ==
    IF ~o.some THEN RetNone
    ELSE IF n \in Mutable THEN AsMut(o.val) ELSE AsRef(o.val)

\* A writer that uses `self.inner.get()` and never initialises the OnceCell.
GetOrInitSkipped(cell) == cell

\* A writer that builds a fresh Mutex on every call.
GetOrInitAlways(cell) == MutexOf(None)

\* `OnceCell::get_or_init(|| None.into())`
GetOrInit(cell) == IF cell.init THEN cell ELSE MutexOf(None)

\* `Option::get_or_insert(p)` in place of replace: the first registration stays.
ReplaceKeepFirst(cell, p) == IF cell.data.some THEN cell ELSE [cell EXCEPT !.data = Some(p)]

\* `Option::replace(p)` on the slot.
Replace(cell, p) == [cell EXCEPT !.data = Some(p)]

\* A clear that puts the OnceCell back to empty.
AssignNoneTake(cell) == OnceCellNew

\* A clear that leaves the slot as it is.
AssignNoneSkipped(cell) == cell

\* `*guard = None`
AssignNone(cell) == [cell EXCEPT !.data = None]

Top(t) == wstack[t][Len(wstack[t])]
Pop(s) == SubSeq(s, 1, Len(s) - 1)

\* A panic unwinds the thread's stack: every `with` frame is left without
\* running the rest of with (self.clear() is not reached), and a MutexGuard
\* that is alive is dropped, which poisons its Mutex.
Unwind(t) ==
    /\ pc' = [pc EXCEPT ![t] = "idle"]
    /\ op' = [op EXCEPT ![t] = NoOp]
    /\ wstack' = [wstack EXCEPT ![t] = <<>>]
    /\ ret' = [ret EXCEPT ![t] = RetPanic]
    /\ tmp' = [tmp EXCEPT ![t] = 0]
    /\ held' = [held EXCEPT ![t] = None]
    /\ poisoned' = [c \in Cells |-> poisoned[c] \/ owner[c] = t]
    /\ owner' = [c \in Cells |-> IF owner[c] = t THEN NoThread ELSE owner[c]]

\* ------------------------------------------------------------- calls
\* set and clear start with `self.inner.get_or_init(|| None.into())`; the
\* thread then stands before `mutex.lock()`.
BeginWriter(t, o) ==
    /\ pc[t] = "idle"
    /\ o.cell \in statics
    /\ inner' = [inner EXCEPT ![o.cell] = GetOrInit(@)]
    /\ pc' = [pc EXCEPT ![t] = "lock"]
    /\ op' = [op EXCEPT ![t] = o]
    /\ ret' = [ret EXCEPT ![t] = RetPending]
    /\ UNCHANGED <<statics, owner, poisoned, mem, tmp, incs, reg, held>>

\* set(&self, item)
CallSet(t, c, a) ==
    /\ BeginWriter(t, Op("set", c, a, "direct"))
    /\ UNCHANGED wstack

\* clear(&self)
CallClear(t, c) ==
    /\ BeginWriter(t, Op("clear", c, 0, "direct"))
    /\ UNCHANGED wstack

\* with(&self, item, f): the first thing with does is self.set(item).
\* With `nest`, with may be called inside the closure of a with.
CallWith(t, c, a, nest) ==
    /\ Len(wstack[t]) < (IF nest THEN MaxDepth ELSE 1)
    /\ BeginWriter(t, Op("set", c, a, "with"))
    /\ wstack' = [wstack EXCEPT ![t] = Append(@, c)]

\* get / try_get / get_mut / try_get_mut start with `self.inner.get()?`:
\* None at once when the OnceCell is empty (get and get_mut then reach their
\* `expect`), else the thread stands before `.lock()`.
CallRead(t, c, n) ==
    /\ pc[t] = "idle"
    /\ c \in statics
    /\ n \in ReadersOf(c)
    /\ op' = [op EXCEPT ![t] = IF ~inner[c].init /\ n \notin Failing
                                THEN NoOp ELSE Op(n, c, 0, "direct")]
    /\ pc' = [pc EXCEPT ![t] = IF inner[c].init THEN "lock"
                                ELSE IF n \in Failing THEN "expect" ELSE "idle"]
    /\ ret' = [ret EXCEPT ![t] = IF inner[c].init THEN RetPending ELSE RetNone]
    /\ UNCHANGED <<statics, inner, owner, poisoned, mem, wstack, tmp, incs, reg, held>>

\* A lock that does not wait for the thread holding the Mutex.
LockNoWait(t) ==
    /\ pc[t] = "lock"
    /\ owner' = [owner EXCEPT ![op[t].cell] = t]
    /\ pc' = [pc EXCEPT ![t] = "crit"]
    /\ UNCHANGED <<statics, inner, poisoned, mem, op, wstack, ret, tmp, incs, reg, held>>

\* `mutex.lock().unwrap()`: waits while a thread holds the Mutex, and panics
\* on a poisoned Mutex.
Lock(t) ==
    /\ pc[t] = "lock"
    /\ owner[op[t].cell] = NoThread
    /\ IF poisoned[op[t].cell]
       THEN /\ Unwind(t)
            /\ UNCHANGED <<statics, inner, mem, incs, reg>>
       ELSE /\ owner' = [owner EXCEPT ![op[t].cell] = t]
            /\ pc' = [pc EXCEPT ![t] = "crit"]
            /\ UNCHANGED <<statics, inner, poisoned, mem, op, wstack, ret, tmp, incs, reg, held>>

\* A with whose final self.clear() puts an earlier registration, of address
\* 1, back into the slot.
WrittenRestoring(o, cell) ==
    IF o.name = "set" THEN Replace(cell, PtrToUsize(o.item))
    ELSE IF o.via = "with" THEN Replace(cell, PtrToUsize(1)) ELSE AssignNone(cell)

\* A with whose final self.clear() leaves the slot as it is.
WrittenNoFinalClear(o, cell) ==
    IF o.name = "set" THEN Replace(cell, PtrToUsize(o.item))
    ELSE IF o.via = "with" THEN cell ELSE AssignNone(cell)

\* What a writer makes of its cell under the lock: `.replace(item as usize)`
\* in set, `*guard = None` in clear.
Written(o, cell) ==
    IF o.name = "set" THEN Replace(cell, PtrToUsize(o.item)) ELSE AssignNone(cell)

\* A guard that is never dropped (leaked).
DroppedNever(t) == t

\* A with that keeps the guard of its set alive across the closure.
DroppedAfterBody(t) ==
    IF op[t].via = "with" /\ op[t].name = "set" THEN t ELSE NoThread

\* A get_mut / try_get_mut whose guard lives as long as the &mut T it returns.
DroppedWithHandle(t) == IF op[t].name \in Mutable THEN t ELSE NoThread

\* A get / get_mut that drops the guard only after its expect.
DroppedAfterExpect(t) == IF op[t].name \in Failing THEN t ELSE NoThread

\* The owner of the Mutex once the guard of thread t has been dropped.
Dropped(t) == NoThread

\* A with that returns R's default instead of what the closure returned.
WithResultDefault(o) == Ret("res", 0)

\* The last expression of with, `res`: what the closure returned.
WithResult(o) == Ret("res", o.item)

\* The last statement of set and clear: the write under the lock and, at the
\* end of the statement, the drop of the temporary MutexGuard.  set called by
\* with goes on into the closure f; clear called by with returns from with.
WriterCrit(t) ==
    /\ pc[t] = "crit"
    /\ op[t].name \in Writers
    /\ owner[op[t].cell] = t
    /\ inner' = [inner EXCEPT ![op[t].cell] = Written(op[t], @)]
    /\ reg' = [reg EXCEPT ![op[t].cell] =
                  IF op[t].name = "set" THEN Some(op[t].item) ELSE None]
    /\ owner' = [owner EXCEPT ![op[t].cell] = Dropped(t)]
    /\ pc' = [pc EXCEPT ![t] = "idle"]
    /\ op' = [op EXCEPT ![t] = NoOp]
    /\ ret' = [ret EXCEPT ![t] =
                  IF op[t].via # "with" THEN RetUnit
                  ELSE IF op[t].name = "set" THEN @ ELSE WithResult(op[t])]
    /\ wstack' = [wstack EXCEPT ![t] =
                  IF op[t].via = "with" /\ op[t].name = "clear" THEN Pop(@) ELSE @]
    /\ held' = [u \in Threads |->
                  IF u = t /\ op[t].via = "with" /\ op[t].name = "set"
                  THEN Some(op[t].item)
                  ELSE IF wstack[u] # <<>> /\ Top(u) = op[t].cell
                  THEN None ELSE held[u]]
    /\ UNCHANGED <<statics, poisoned, mem, tmp, incs>>

\* What the reader o gets from the slot it looks at.
Looked(o) == AndThen(inner[o.cell].data, o.name)

\* A lookup that takes the address out of the slot (`Option::take`).
ReaderCritTaking(t) ==
    /\ pc[t] = "crit"
    /\ op[t].name \in Readers
    /\ owner[op[t].cell] = t
    /\ ret' = [ret EXCEPT ![t] = Looked(op[t])]
    /\ inner' = [inner EXCEPT ![op[t].cell] = AssignNone(@)]
    /\ owner' = [owner EXCEPT ![op[t].cell] = Dropped(t)]
    /\ IF op[t].name \in Failing
       THEN /\ pc' = [pc EXCEPT ![t] = "expect"]
            /\ UNCHANGED op
       ELSE /\ pc' = [pc EXCEPT ![t] = "idle"]
            /\ op' = [op EXCEPT ![t] = NoOp]
    /\ UNCHANGED <<statics, poisoned, mem, wstack, tmp, incs, reg, held>>

\* `inner.and_then(|p| (p as *const T).as_ref())` of try_get (as_mut in
\* try_get_mut), and the drop of the guard `inner` when the function returns.
ReaderCrit(t) ==
    /\ pc[t] = "crit"
    /\ op[t].name \in Readers
    /\ owner[op[t].cell] = t
    /\ ret' = [ret EXCEPT ![t] = Looked(op[t])]
    /\ owner' = [owner EXCEPT ![op[t].cell] = Dropped(t)]
    /\ IF op[t].name \in Failing
       THEN /\ pc' = [pc EXCEPT ![t] = "expect"]
            /\ UNCHANGED op
       ELSE /\ pc' = [pc EXCEPT ![t] = "idle"]
            /\ op' = [op EXCEPT ![t] = NoOp]
    /\ UNCHANGED <<statics, inner, poisoned, mem, wstack, tmp, incs, reg, held>>

\* An accessor that returns from a None instead of panicking.
ExpectLenient(t) ==
    /\ pc[t] = "expect"
    /\ pc' = [pc EXCEPT ![t] = "idle"]
    /\ op' = [op EXCEPT ![t] = NoOp]
    /\ UNCHANGED <<statics, inner, owner, poisoned, mem, wstack, ret, tmp, incs, reg, held>>

\* `.expect("Call set() before calling get()!")` of get and get_mut.
Expect(t) ==
    /\ pc[t] = "expect"
    /\ IF ret[t] = RetNone
       THEN /\ Unwind(t)
            /\ UNCHANGED <<statics, inner, mem, incs, reg>>
       ELSE /\ pc' = [pc EXCEPT ![t] = "idle"]
            /\ op' = [op EXCEPT ![t] = NoOp]
            /\ UNCHANGED <<statics, inner, owner, poisoned, mem, wstack, ret, tmp, incs, reg, held>>

\* ------------------------------------------------------------- closures
\* Thread t is executing the closure of its innermost with, between two calls.
InBody(t) == pc[t] = "idle" /\ wstack[t] # <<>>

\* `let res = f();` has returned r: with goes on to self.clear(), and the
\* clear it calls carries res in its item field.
BodyReturn(t, r) ==
    /\ InBody(t)
    /\ BeginWriter(t, Op("clear", Top(t), r, "with"))
    /\ UNCHANGED wstack

\* The closure f panics.
BodyPanic(t) ==
    /\ InBody(t)
    /\ Unwind(t)
    /\ UNCHANGED <<statics, inner, mem, incs, reg>>

\* ------------------------------------------------------------- pointee
RECURSIVE SumOver(_, _)
SumOver(f, S) ==
    IF S = {} THEN 0
    ELSE LET x == CHOOSE y \in S : TRUE IN f[x] + SumOver(f, S \ {x})

\* Thread t is between the load and the store of `*r += 1` on address a.
Storing(t, a) == pc[t] = "store" /\ ret[t].addr = a

\* The `*r += 1` started so far.
Started == SumOver(incs, Addr) + Cardinality({t \in Threads : pc[t] = "store"})

\* No join: the increments may overlap.
JoinedNever(t, a) == TRUE

\* handle.join(): the caller lets no two `*r += 1` on one address overlap.
Joined(t, a) == \A u \in Threads \ {t} : ~Storing(u, a)

\* The load of `*r += 1` through the &mut T that get_mut / try_get_mut
\* returned.  With `joined`, the caller orders the increments itself, as the
\* test multi_thread does.
IncLoad(t, joined) ==
    /\ pc[t] = "idle"
    /\ ret[t].kind = "mut"
    /\ Started < MaxIncs
    /\ joined => Joined(t, ret[t].addr)
    /\ tmp' = [tmp EXCEPT ![t] = mem[ret[t].addr]]
    /\ pc' = [pc EXCEPT ![t] = "store"]
    /\ UNCHANGED <<statics, inner, owner, poisoned, mem, op, wstack, ret, incs, reg, held>>

\* The store of `*r += 1`.
IncStore(t) ==
    /\ pc[t] = "store"
    /\ mem' = [mem EXCEPT ![ret[t].addr] = tmp[t] + 1]
    /\ incs' = [incs EXCEPT ![ret[t].addr] = @ + 1]
    /\ tmp' = [tmp EXCEPT ![t] = 0]
    /\ pc' = [pc EXCEPT ![t] = "idle"]
    /\ UNCHANGED <<statics, inner, owner, poisoned, op, wstack, ret, reg, held>>

\* ------------------------------------------------------------- specifications
\* The calls of one thread on the cells.
Calls(t, nest) ==
    \/ \E c \in Cells, a \in Addr : CallSet(t, c, a)
    \/ \E c \in Cells : CallClear(t, c)
    \/ \E c \in Cells, n \in Readers : CallRead(t, c, n)
    \/ \E c \in Cells, a \in Addr : CallWith(t, c, a, nest)
    \/ Lock(t)
    \/ WriterCrit(t)
    \/ ReaderCrit(t)
    \/ Expect(t)
    \/ \E r \in Results : BodyReturn(t, r)
    \/ BodyPanic(t)

\* Threads that only call the cell's functions.  No action of Calls reads
\* mem, tmp or incs, and IncLoad / IncStore change nothing else, so the
\* slot's behaviours are the same with and without the pointee's writes.
Next == \E t \in Threads : Calls(t, TRUE)

Spec == Init /\ [][Next]_vars

\* Threads that also write through the &mut T they got, in any order.
NextRacy == \E t \in Threads : Calls(t, FALSE) \/ IncLoad(t, FALSE) \/ IncStore(t)

SpecRacy == Init /\ [][NextRacy]_vars

\* Threads that write through the &mut T they got, one `*r += 1` at a time.
NextJoined == \E t \in Threads : Calls(t, FALSE) \/ IncLoad(t, TRUE) \/ IncStore(t)

SpecJoined == InitWith({"GlobalMut"}) /\ [][NextJoined]_vars

\* Fair scheduling: a thread that can go on inside a call does so, and a
\* thread waiting in lock() gets the Mutex if it is free again and again.
Fairness ==
    \A t \in Threads :
        /\ WF_vars(WriterCrit(t))
        /\ WF_vars(ReaderCrit(t))
        /\ WF_vars(Expect(t))
        /\ SF_vars(Lock(t))

\* Threads that call the cell's functions and do not nest with, scheduled
\* fairly.
NextFlat == \E t \in Threads : Calls(t, FALSE)

SpecFair == Init /\ [][NextFlat]_vars /\ Fairness

\* ------------------------------------------------------------- properties
\* Steps of a behaviour, told from the state before and the state after.
\* Thread t does the slot lookup of a reader and drops the guard.
LookStep(t) == pc[t] = "crit" /\ op[t].name \in Readers /\ pc'[t] # "crit"
\* Thread t finishes the statement of set.
SetDone(t) == pc[t] = "crit" /\ op[t].name = "set" /\ pc'[t] = "idle"
\* Thread t finishes the statement of clear.
ClearDone(t) == pc[t] = "crit" /\ op[t].name = "clear" /\ pc'[t] = "idle"
\* Thread t returns from with.
WithReturn(t) == ClearDone(t) /\ op[t].via = "with"
\* Thread t gets a reference it did not hold before.
NewHandle(t) == ret'[t].kind \in {"ref", "mut"} /\ ret'[t] # ret[t]

\* The result the function n owes its caller when the registration is o.
Owed(o, n) ==
    IF o.some THEN Ret(IF n \in Mutable THEN "mut" ELSE "ref", o.val) ELSE RetNone

\* C1: between a finished set(v) and the next finished set or clear on the
\* cell, every lookup of get / try_get / get_mut / try_get_mut by any thread
\* yields a reference to v's address, a get / get_mut that looked up a
\* reference returns it, and a write through a &mut T lands in the i32 at
\* that address and nowhere else (so the owner and a later get see it).
C1_RegisteredIsReturned ==
    [][\A t \in Threads :
        /\ (LookStep(t) /\ reg[op[t].cell].some)
               => /\ ret'[t] = Owed(reg[op[t].cell], op[t].name)
                  /\ ret'[t].addr \in Addr
        /\ (pc[t] = "expect" /\ ret[t].kind \in {"ref", "mut"} /\ pc'[t] # "expect")
               => (ret'[t] = ret[t] /\ pc'[t] = "idle")
        /\ (pc[t] = "store" /\ pc'[t] # "store")
               => /\ ret[t].kind = "mut"
                  /\ mem' = [mem EXCEPT ![ret[t].addr] = tmp[t] + 1]
        /\ (pc[t] = pc'[t] /\ \A u \in Threads : pc[u] # "store") => mem' = mem
      ]_vars

\* C1 witness: while address a is registered in the GlobalMut, one thread
\* holds the &mut to a and has written through it, and the other thread's
\* get returned a reference to the same address.
C1_Witness ==
    \E a \in Addr : \E t, u \in Threads :
        /\ t # u
        /\ reg["GlobalMut"] = Some(a)
        /\ ret[t] = Ret("mut", a) /\ pc[t] = "idle"
        /\ ret[u] = Ret("ref", a) /\ pc[u] = "idle"
        /\ mem[a] = 1 /\ incs[a] = 1

\* C2: a finished clear leaves the Mutex holding None whatever the cell was
\* before (so a second clear changes nothing), and while no set has finished
\* since, try_get / try_get_mut return None and no thread gets a reference.
C2_ClearedReadsNone ==
    [][\A t \in Threads :
        /\ ClearDone(t) => inner'[op[t].cell] = MutexOf(None)
        /\ (LookStep(t) /\ reg[op[t].cell] = None) => ret'[t] = RetNone
        /\ (\A c \in statics : reg[c] = None) => ~NewHandle(t)
      ]_vars

\* C2 witness: the cell was registered (a thread still holds the reference it
\* read then), a clear has finished, and a try_get of the other thread has
\* returned None.
C2_Witness ==
    \E c \in statics : \E t, u \in Threads :
        /\ t # u
        /\ inner[c] = MutexOf(None) /\ reg[c] = None
        /\ ret[t] = RetNone /\ pc[t] = "idle"
        /\ ret[u].kind = "ref" /\ pc[u] = "idle"

\* C3: whenever a thread leaves a with (by return or by unwinding), the slot
\* of that with's cell is Empty.
C3_WithAlwaysClears ==
    [][\A t \in Threads :
        Len(wstack'[t]) < Len(wstack[t])
            => \A i \in (Len(wstack'[t]) + 1)..Len(wstack[t]) :
                   inner'[wstack[t][i]].data = None
      ]_vars

\* Thread t is executing the closure of its innermost with (a call the
\* closure makes included).
InClosure(t) == wstack[t] # <<>> /\ op[t].via # "with"

\* C4 as claimed: once the closure of with(item, f) runs with item
\* registered, every step that leaves the thread in that closure leaves item
\* registered, and item is not registered when with returns.
C4_RegisteredThroughoutBody ==
    [][\A t \in Threads :
        /\ (InClosure(t) /\ held[t].some /\ InClosure(t)' /\ wstack'[t] = wstack[t])
               => inner'[Top(t)].data = held[t]
        /\ (WithReturn(t) /\ held[t].some) => inner'[op[t].cell].data # held[t]
      ]_vars

\* C4 as amended: item stays registered from the set of with(item, f) on, as
\* long as no other set or clear on the cell has finished; and the slot is
\* Empty at the moment with returns normally.
C4_RegisteredWhileUndisturbed ==
    [][\A t \in Threads :
        /\ held'[t].some
               => /\ wstack'[t] # <<>>
                  /\ inner'[wstack'[t][Len(wstack'[t])]].data = held'[t]
        /\ WithReturn(t) => inner'[op[t].cell].data = None
      ]_vars

\* C4 witness: a thread is inside the closure of its with, its item still
\* registered, and the other thread has read that item through the cell.
C4_Witness ==
    \E t, u \in Threads :
        /\ t # u
        /\ pc[t] = "idle" /\ wstack[t] # <<>> /\ held[t].some
        /\ inner[Top(t)].data = held[t]
        /\ ret[u] = Ret("ref", held[t].val) /\ pc[u] = "idle" /\ wstack[u] = <<>>

\* C5: set never fails, a set on a Registered slot replaces the address, and
\* every lookup that follows (until the next finished set or clear) yields
\* the address of the last finished set.
C5_LastWriteWins ==
    [][\A t \in Threads :
        /\ (pc[t] \in {"lock", "crit"} /\ op[t].name = "set") => ret'[t] # RetPanic
        /\ SetDone(t) => inner'[op[t].cell].data = Some(op[t].item)
        /\ (LookStep(t) /\ reg[op[t].cell].some) => ret'[t].addr = reg[op[t].cell].val
      ]_vars /\ [](\A c \in Cells : inner[c].data = reg[c])

\* C5 witness: a thread is in the closure of a with whose registration another
\* finished set has replaced; the slot holds the second item and the thread
\* has read it.
C5_Witness ==
    \E c \in statics : \E t, u \in Threads :
        /\ t # u
        /\ wstack[t] = <<c>> /\ pc[t] = "idle" /\ ~held[t].some
        /\ reg[c] = Some(2) /\ inner[c].data = Some(2)
        /\ ret[t] = Ret("ref", 2)
        /\ ret[u] = RetUnit /\ pc[u] = "idle" /\ wstack[u] = <<>>

\* C6: on a cell that holds no registration, the lookup of every accessor
\* yields None and no thread gets a reference; get / get_mut, holding None
\* at their expect, panic; try_get / try_get_mut return the None.
C6_UnregisteredFails ==
    [][\A t \in Threads :
        /\ (LookStep(t) /\ ~inner[op[t].cell].data.some) => ret'[t] = RetNone
        /\ (\A c \in statics : ~inner[c].data.some) => ~NewHandle(t)
        /\ (pc[t] = "idle" /\ pc'[t] = "expect") => ret'[t] = RetNone
        /\ (pc[t] = "expect" /\ ret[t] = RetNone /\ pc'[t] # "expect")
               => (ret'[t] = RetPanic /\ pc'[t] = "idle")
        /\ (LookStep(t) /\ op[t].name \notin Failing) => pc'[t] = "idle"
      ]_vars

\* C6 witness: get_mut on a fresh cell stands at its expect with None, and
\* the other thread's failing accessor has already panicked outside any with.
C6_Witness ==
    \E t, u \in Threads :
        /\ t # u
        /\ pc[t] = "expect" /\ op[t].name = "get_mut" /\ ret[t] = RetNone
        /\ ~inner[op[t].cell].init
        /\ ret[u] = RetPanic /\ pc[u] = "idle"

\* C7: at most one thread is inside the guarded slot access of a cell, and it
\* holds the Mutex; the slot always equals the last finished registration;
\* and every lookup yields exactly what that registration owes, whatever set
\* or clear is in progress.
C7_AtomicTotalOrder ==
    /\ [](\A t, u \in Threads :
            (pc[t] = "crit" /\ pc[u] = "crit" /\ op[t].cell = op[u].cell) => t = u)
    /\ [](\A t \in Threads : pc[t] = "crit" => owner[op[t].cell] = t)
    /\ [](\A c \in Cells : inner[c].data = reg[c] /\ (reg[c].some => reg[c].val \in Addr))
    /\ [][\A t \in Threads :
            LookStep(t) => ret'[t] = Owed(reg[op[t].cell], op[t].name)]_vars

\* C7 witness: a reader is inside its guarded lookup on a Registered cell
\* while a set of the other thread waits in lock() on the same cell.
C7_Witness ==
    \E t, u \in Threads :
        /\ pc[t] = "crit" /\ op[t].name \in Readers
        /\ inner[op[t].cell].data.some
        /\ pc[u] = "lock" /\ op[u].name = "set" /\ op[u].cell = op[t].cell
        /\ op[u].item # inner[op[t].cell].data.val

\* C8: a thread holds the Mutex of a cell only inside the guarded statement
\* of a call on that cell; a thread inside a with holds no Mutex between its
\* calls, so the Mutex is free whenever no thread is in a guarded statement.
C8_NoLockAcrossBody ==
    /\ \A t \in Threads : \A c \in Cells :
           owner[c] = t => (pc[t] = "crit" /\ op[t].cell = c)
    /\ \A c \in Cells :
           (\A t \in Threads : ~(pc[t] = "crit" /\ op[t].cell = c)) => owner[c] = NoThread

\* C8 witness: one thread is inside the closure of its with on a cell while
\* the other thread holds that cell's Mutex for a set.
C8_Witness ==
    \E t, u \in Threads :
        /\ pc[t] = "idle" /\ wstack[t] # <<>>
        /\ pc[u] = "crit" /\ op[u].name = "set" /\ op[u].cell = Top(t)
        /\ owner[Top(t)] = u

\* A call of thread t is in progress.
InCall(t) == pc[t] \in {"lock", "crit", "expect"}

\* C9: no thread calls lock() on a Mutex it holds, and under fair scheduling
\* every call in progress completes.
C9_NoDeadlock ==
    /\ [](\A t \in Threads : pc[t] = "lock" => owner[op[t].cell] # t)
    /\ \A t \in Threads : InCall(t) ~> pc[t] = "idle"

\* C9 witness: a call made from the closure of a with waits in lock() while
\* the other thread holds the Mutex.
C9_Witness ==
    \E t, u \in Threads :
        /\ t # u
        /\ pc[t] = "lock" /\ op[t].via = "direct" /\ wstack[t] # <<>>
        /\ owner[op[t].cell] = u

\* C10: when the caller lets no two increments overlap, the i32 at every
\* address holds the number of finished increments (none is lost), an
\* increment in progress has loaded the current value, and the slot is Empty
\* when the with that registered the value returns.
C10_JoinedIncrementsCount ==
    [][/\ \A a \in Addr : mem'[a] = incs'[a]
       /\ \A t \in Threads :
              /\ pc'[t] = "store" => tmp'[t] = mem'[ret'[t].addr]
              /\ WithReturn(t) => inner'[op[t].cell].data = None
      ]_vars

\* C10 witness: inside main's one registration of address a, main and the
\* spawned thread have each incremented through get_mut, and main's get has
\* returned a reference to a value that is now 2.
C10_Witness ==
    \E a \in Addr :
        /\ wstack["main"] = <<"GlobalMut">> /\ held["main"] = Some(a)
        /\ pc["main"] = "idle" /\ ret["main"] = Ret("ref", a)
        /\ pc["spawned"] = "idle" /\ ret["spawned"] = Ret("mut", a)
        /\ mem[a] = 2 /\ incs[a] = 2

\* C11 as claimed: whatever function a thread calls, the OnceCell of the
\* cell is initialised once the call has made its first access.
C11_AnyCallInitialises ==
    [][\A t \in Threads :
        (pc[t] = "idle" /\ pc'[t] \in {"lock", "expect"})
            => inner'[op'[t].cell].init
      ]_vars

\* C11 as amended: set, clear and with initialise the OnceCell with their
\* first access; get / try_get / get_mut / try_get_mut on an empty OnceCell
\* leave it empty and yield None (get / get_mut then panic); a reader goes
\* on to lock() only on an initialised OnceCell.
C11_OnlyWritersInitialise ==
    [][\A t \in Threads :
        /\ (pc[t] = "idle" /\ pc'[t] = "lock") => inner'[op'[t].cell].init
        /\ (pc[t] = "idle" /\ pc'[t] = "lock" /\ op'[t].name \in Writers
              /\ ~inner[op'[t].cell].init)
               => inner'[op'[t].cell] = MutexOf(None)
        /\ (pc[t] = "idle" /\ pc'[t] = "expect")
               => /\ op'[t].name \in Failing
                  /\ ~inner'[op'[t].cell].init
                  /\ inner' = inner
                  /\ ret'[t] = RetNone
        /\ (pc[t] = "idle" /\ pc'[t] = "lock" /\ op'[t].name \in Readers)
               => inner' = inner
      ]_vars

\* C11 witness: both threads have called read accessors on the fresh cell
\* (one panicked in get, one got None), and the OnceCell is still empty.
C11_Witness ==
    \E c \in statics : \E t, u \in Threads :
        /\ t # u
        /\ ~inner[c].init
        /\ ret[t] = RetPanic /\ pc[t] = "idle"
        /\ ret[u] = RetNone /\ pc[u] = "idle"

\* Thread t takes a step.
Moves(t) == pc'[t] # pc[t] \/ ret'[t] # ret[t] \/ op'[t] # op[t] \/ wstack'[t] # wstack[t]

\* C12: no step of get / try_get / get_mut / try_get_mut, successful or
\* failing, changes the OnceCell or the slot of any cell; the slot changes
\* only in the guarded statement of a set or a clear (those of with
\* included), and the OnceCell only in the first access of a set or clear.
C12_ReadersLeaveSlot ==
    [][/\ \A t \in Threads :
            (Moves(t) /\ (op[t].name \in Readers \/ op'[t].name \in Readers))
                => inner' = inner
       /\ \A t \in Threads :
            (Moves(t) /\ pc[t] = "idle" /\ pc'[t] = "idle" /\ ret'[t] = RetNone) => inner' = inner
       /\ \A c \in Cells :
            inner'[c].data # inner[c].data
                => \E t \in Threads : (SetDone(t) \/ ClearDone(t)) /\ op[t].cell = c
       /\ \A c \in Cells :
            inner'[c].init # inner[c].init
                => \E t \in Threads :
                       pc[t] = "idle" /\ pc'[t] = "lock" /\ op'[t].name \in Writers
      ]_vars

\* C12 witness: one thread's lookup succeeded and the other's get failed
\* earlier, and the slot still holds the address the first one read.
C12_Witness ==
    \E c \in statics : \E t, u \in Threads :
        /\ t # u
        /\ ret[t].kind = "ref" /\ pc[t] = "idle"
        /\ inner[c].data = Some(ret[t].addr) /\ reg[c] = Some(ret[t].addr)
        /\ ret[u] = RetPanic /\ pc[u] = "idle" /\ wstack[u] = <<>>

\* C13: a thread that holds or uses the &mut T from get_mut / try_get_mut
\* holds no Mutex, its `*r += 1` is never made to wait for another thread's,
\* and the value at an address never exceeds the number of finished
\* increments (it can fall short of it: see the witness).
C13_PointeeUnguarded ==
    /\ \A t \in Threads :
           (pc[t] = "store" \/ (pc[t] = "idle" /\ ret[t].kind = "mut"))
               => \A c \in Cells : owner[c] # t
    /\ \A t \in Threads :
           (pc[t] = "idle" /\ ret[t].kind = "mut" /\ Started < MaxIncs)
               => ENABLED IncLoad(t, FALSE)
    /\ \A a \in Addr : mem[a] <= incs[a]

\* C13 witness: on one registration of address a both threads got the &mut
\* through the cell and each finished one `*r += 1`, and the value is 1: one
\* update is lost.
C13_Witness ==
    \E a \in Addr :
        /\ reg["GlobalMut"] = Some(a)
        /\ \A t \in Threads : pc[t] = "idle" /\ ret[t] = Ret("mut", a)
        /\ incs[a] = 2
        /\ mem[a] = 1

\* C14: with(item, f) is set(item), then f once, then clear(), in this
\* order.  Its set starts by entering with (one more frame); when that set is
\* done the slot holds item's address and the closure starts; the clear of
\* with starts only from the closure of the innermost with, on that with's
\* cell; when it is done, with returns what the closure returned and its
\* frame is gone; and a frame goes away in no other way than by the return of
\* its with or by a panic.
C14_WithIsSetBodyClear ==
    [][\A t \in Threads :
        /\ (pc[t] = "idle" /\ op'[t].via = "with" /\ op'[t].name = "set")
               => wstack'[t] = Append(wstack[t], op'[t].cell)
        /\ (SetDone(t) /\ op[t].via = "with")
               => /\ inner'[op[t].cell].data = Some(PtrToUsize(op[t].item))
                  /\ InBody(t)'
                  /\ Top(t)' = op[t].cell
                  /\ wstack'[t] = wstack[t]
        /\ (pc[t] = "idle" /\ op'[t].via = "with" /\ op'[t].name = "clear")
               => /\ InBody(t)
                  /\ op'[t].cell = Top(t)
                  /\ wstack'[t] = wstack[t]
        /\ WithReturn(t)
               => /\ ret'[t] = Ret("res", op[t].item)
                  /\ wstack'[t] = Pop(wstack[t])
        /\ (wstack'[t] # wstack[t] /\ Len(wstack'[t]) <= Len(wstack[t]))
               => WithReturn(t) \/ (ret'[t] = RetPanic /\ wstack'[t] = <<>>)
      ]_vars

\* C14 witness: a thread is back from a with whose closure returned 1, and
\* the other thread is back from one whose closure returned 0.
C14_Witness ==
    \E t, u \in Threads :
        /\ pc[t] = "idle" /\ wstack[t] = <<>> /\ ret[t] = Ret("res", 1)
        /\ pc[u] = "idle" /\ wstack[u] = <<>> /\ ret[u] = Ret("res", 0)

\* C15: in every reachable state the slot of a cell is uninitialised, empty
\* or holds one address, which is the argument of the last finished set when
\* no clear finished after it; an initialised cell stays initialised; and no
\* state is terminal: some step is always possible, and a thread that is not
\* inside a call can always call set and clear.
C15_SlotShape ==
    /\ [](\A c \in Cells :
             /\ inner[c] \in {OnceCellNew, MutexOf(None)} \cup {MutexOf(Some(a)) : a \in Addr}
             /\ inner[c].data = reg[c])
    /\ [][\A c \in Cells : inner[c].init => inner'[c].init]_vars
    /\ [](ENABLED Next)
    /\ [](\A t \in Threads : \A c \in statics :
             pc[t] = "idle" => /\ ENABLED CallClear(t, c)
                               /\ \A a \in Addr : ENABLED CallSet(t, c, a))

\* C15 witness: the cell has held address 1 (one thread still has the
\* reference it got then) and now holds address 2, the argument of the set
\* the other thread has just finished, while the first thread is about to
\* clear it.
C15_Witness ==
    \E c \in Cells : \E t, u \in Threads :
        /\ inner[c] = MutexOf(Some(2))
        /\ reg[c] = Some(2)
        /\ ret[t].kind \in {"ref", "mut"} /\ ret[t].addr = 1 /\ ENABLED CallClear(t, c)
        /\ pc[u] = "idle" /\ ret[u] = RetUnit

\* ------------------------------------------------------------- two cells
\* One program declares a GlobalRef and a GlobalMut and makes every call on
\* both.  Nothing runs concurrently here, so each function is one step, from
\* its own lines of the source.

\* GlobalRef::set
RefSet(cell, a) == Replace(GetOrInit(cell), PtrToUsize(a))
\* GlobalRef::clear
RefClear(cell) == AssignNone(GetOrInit(cell))
\* GlobalRef::try_get
RefTryGet(cell) == IF ~cell.init THEN RetNone ELSE AndThen(cell.data, "try_get")

\* GlobalMut::set (`item as *mut T as usize`)
MutSet(cell, a) == Replace(GetOrInit(cell), PtrToUsize(a))
\* A GlobalMut::clear that only initialises the cell.
MutClearSkipped(cell) == GetOrInit(cell)
\* GlobalMut::clear
MutClear(cell) == AssignNone(GetOrInit(cell))
\* GlobalMut::try_get
MutTryGet(cell) == IF ~cell.init THEN RetNone ELSE AndThen(cell.data, "try_get")
\* GlobalMut::try_get_mut
MutTryGetMut(cell) == IF ~cell.init THEN RetNone ELSE AndThen(cell.data, "try_get_mut")

\* The caller's view of the GlobalRef and of the GlobalMut.
OfRef == "main"
OfMut == "spawned"

\* The program makes each call on the GlobalRef first and repeats it on the
\* GlobalMut before its next call: op[OfMut] is the call still to repeat.
InStep == op[OfMut] = NoOp
Owe(n, a, v) == op' = [op EXCEPT ![OfMut] = Op(n, "GlobalMut", a, v)]
Owing(n, v) == op[OfMut].name = n /\ op[OfMut].via = v
Repeated == op' = [op EXCEPT ![OfMut] = NoOp]

\* What the calls of the pair leave alone.
PairFrame == UNCHANGED <<statics, owner, poisoned, mem, pc, tmp, incs>>

\* The item of t's innermost with after a set or clear other than that with's set.
Overwritten(t) == IF wstack[t] # <<>> THEN None ELSE held[t]

\* One call of t on cell c: the slot, the history, the result and the stack
\* of with calls after it.
SideStep(t, c, cellNew, regNew, retNew, stackNew, heldNew) ==
    /\ inner' = [inner EXCEPT ![c] = cellNew]
    /\ reg' = [reg EXCEPT ![c] = regNew]
    /\ ret' = [ret EXCEPT ![t] = retNew]
    /\ wstack' = [wstack EXCEPT ![t] = stackNew]
    /\ held' = [held EXCEPT ![t] = heldNew]
    /\ PairFrame

\* GlobalRef: set(item)
RefCallSet(a) ==
    /\ InStep /\ Owe("set", a, "direct")
    /\ SideStep(OfRef, "GlobalRef", RefSet(inner["GlobalRef"], a), Some(a),
                RetUnit, wstack[OfRef], Overwritten(OfRef))
\* GlobalMut: set(item)
MutCallSet ==
    /\ Owing("set", "direct") /\ Repeated
    /\ SideStep(OfMut, "GlobalMut", MutSet(inner["GlobalMut"], op[OfMut].item),
                Some(op[OfMut].item), RetUnit, wstack[OfMut], Overwritten(OfMut))

\* GlobalRef: clear()
RefCallClear ==
    /\ InStep /\ Owe("clear", 0, "direct")
    /\ SideStep(OfRef, "GlobalRef", RefClear(inner["GlobalRef"]), None,
                RetUnit, wstack[OfRef], Overwritten(OfRef))
\* GlobalMut: clear()
MutCallClear ==
    /\ Owing("clear", "direct") /\ Repeated
    /\ SideStep(OfMut, "GlobalMut", MutClear(inner["GlobalMut"]), None,
                RetUnit, wstack[OfMut], Overwritten(OfMut))

\* GlobalRef: try_get(); the GlobalMut will be asked with n, try_get or
\* try_get_mut.
RefCallTryGet(n) ==
    /\ InStep /\ Owe(n, 0, "direct")
    /\ SideStep(OfRef, "GlobalRef", inner["GlobalRef"], reg["GlobalRef"],
                RefTryGet(inner["GlobalRef"]), wstack[OfRef], held[OfRef])
\* GlobalMut: try_get()
MutCallTryGet ==
    /\ Owing("try_get", "direct") /\ Repeated
    /\ SideStep(OfMut, "GlobalMut", inner["GlobalMut"], reg["GlobalMut"],
                MutTryGet(inner["GlobalMut"]), wstack[OfMut], held[OfMut])
\* GlobalMut: try_get_mut()
MutCallTryGetMut ==
    /\ Owing("try_get_mut", "direct") /\ Repeated
    /\ SideStep(OfMut, "GlobalMut", inner["GlobalMut"], reg["GlobalMut"],
                MutTryGetMut(inner["GlobalMut"]), wstack[OfMut], held[OfMut])

\* GlobalRef: with(item, f) up to the start of f
RefWithEnter(a) ==
    /\ InStep /\ Owe("set", a, "with")
    /\ Len(wstack[OfRef]) < MaxDepth
    /\ SideStep(OfRef, "GlobalRef", RefSet(inner["GlobalRef"], a), Some(a),
                ret[OfRef], Append(wstack[OfRef], "GlobalRef"), Some(a))
\* GlobalMut: with(item, f) up to the start of f
MutWithEnter ==
    /\ Owing("set", "with") /\ Repeated
    /\ SideStep(OfMut, "GlobalMut", MutSet(inner["GlobalMut"], op[OfMut].item),
                Some(op[OfMut].item), ret[OfMut], Append(wstack[OfMut], "GlobalMut"),
                Some(op[OfMut].item))

\* GlobalRef: f returns r, with does clear() and returns res
RefWithReturn(r) ==
    /\ InStep /\ Owe("clear", r, "with")
    /\ wstack[OfRef] # <<>>
    /\ SideStep(OfRef, "GlobalRef", RefClear(inner["GlobalRef"]), None,
                WithResult(Op("clear", "GlobalRef", r, "with")), Pop(wstack[OfRef]), None)
\* GlobalMut: f returns the same, with does clear() and returns res
MutWithReturn ==
    /\ Owing("clear", "with") /\ Repeated
    /\ SideStep(OfMut, "GlobalMut", MutClear(inner["GlobalMut"]), None,
                WithResult(op[OfMut]), Pop(wstack[OfMut]), None)

\* GlobalRef: f panics, every with is left without its clear()
RefWithPanic ==
    /\ InStep /\ Owe("panic", 0, "with")
    /\ wstack[OfRef] # <<>>
    /\ SideStep(OfRef, "GlobalRef", inner["GlobalRef"], reg["GlobalRef"],
                RetPanic, <<>>, None)
\* GlobalMut: f panics as well
MutWithPanic ==
    /\ Owing("panic", "with") /\ Repeated
    /\ SideStep(OfMut, "GlobalMut", inner["GlobalMut"], reg["GlobalMut"],
                RetPanic, <<>>, None)

NextPair ==
    \/ \E a \in Addr : RefCallSet(a)
    \/ MutCallSet
    \/ RefCallClear
    \/ MutCallClear
    \/ \E n \in {"try_get", "try_get_mut"} : RefCallTryGet(n)
    \/ MutCallTryGet
    \/ MutCallTryGetMut
    \/ \E a \in Addr : RefWithEnter(a)
    \/ MutWithEnter
    \/ \E r \in Results : RefWithReturn(r)
    \/ MutWithReturn
    \/ RefWithPanic
    \/ MutWithPanic

\* A program that declares one static of each type and makes the same calls
\* on both.
SpecPair == InitWith(Cells) /\ [][NextPair]_vars

\* C16: driven by the same set / clear / with calls, the GlobalRef and the
\* GlobalMut are in the same slot state after every call made on both
\* (uninitialised, empty, or holding the same address), their with calls
\* are equally deep, and try_get on the GlobalRef, try_get on the GlobalMut
\* and try_get_mut on the GlobalMut all give None or all give the registered
\* address, both as the calls would answer now and as they did answer last.
C16_SameSlotMachine ==
    LET r == inner["GlobalRef"]
        m == inner["GlobalMut"]
    IN  InStep =>
        /\ r = m
        /\ r.init = m.init /\ r.data = m.data /\ reg["GlobalRef"] = reg["GlobalMut"]
        /\ Len(wstack[OfRef]) = Len(wstack[OfMut])
        /\ RefTryGet(r).addr = MutTryGet(m).addr
        /\ RefTryGet(r).addr = MutTryGetMut(m).addr
        /\ RefTryGet(r) = Owed(reg["GlobalRef"], "try_get")
        /\ MutTryGetMut(m) = Owed(reg["GlobalMut"], "try_get_mut")
        /\ (RefTryGet(r) = RetNone) = (MutTryGet(m) = RetNone)
        /\ (RefTryGet(r) = RetNone) = (MutTryGetMut(m) = RetNone)
        /\ ret[OfRef].addr = ret[OfMut].addr
        /\ (ret[OfRef] = RetNone) = (ret[OfMut] = RetNone)

\* C16 witness: inside the closure of a with on both cells, after a set of
\* address 2, try_get on the GlobalRef and try_get_mut on the GlobalMut have
\* both answered with address 2.
C16_Witness ==
    /\ InStep
    /\ wstack[OfRef] = <<"GlobalRef">>
    /\ wstack[OfMut] = <<"GlobalMut">>
    /\ inner["GlobalRef"] = MutexOf(Some(2))
    /\ inner["GlobalMut"] = MutexOf(Some(2))
    /\ held[OfRef] = None
    /\ ret[OfRef] = Ret("ref", 2)
    /\ ret[OfMut] = Ret("mut", 2)

\* C17: no function of a cell panics while it holds the Mutex, so no Mutex is
\* ever poisoned.  A thread before the expect of get / get_mut holds no
\* Mutex; a call unwinds only at that expect, on a None, or from the closure
\* of a with, never at lock(); the panic of the expect leaves slot and
\* registration as they are; and the Mutex is then free or held by another
\* thread that is about to release it, so a thread waiting at lock() for a
\* free Mutex can always take it.
C17_NeverPoisoned ==
    /\ [](\A c \in Cells : ~poisoned[c])
    /\ [](\A t \in Threads :
             /\ pc[t] = "expect" => \A c \in Cells : owner[c] # t
             /\ (pc[t] = "lock" /\ owner[op[t].cell] = NoThread)
                    => ENABLED (Lock(t) /\ pc'[t] = "crit"))
    /\ [][\A t \in Threads :
             (ret'[t] = RetPanic /\ Moves(t))
                 => /\ \/ pc[t] = "expect" /\ ret[t] = RetNone
                       \/ InBody(t)
                    /\ inner' = inner
                    /\ reg' = reg
                    /\ owner' = owner
                    /\ poisoned' = poisoned
      ]_vars

\* C17 witness: a get / get_mut has found no address and stands before its
\* expect, which will panic; it holds no Mutex: the other thread has taken
\* the Mutex of the same cell and is writing address 1 over the address 2 of
\* an earlier set, and an earlier call of that thread panicked or returned.
C17_Witness ==
    \E c \in Cells : \E t, u \in Threads :
        /\ pc[t] = "expect" /\ op[t].cell = c /\ ret[t] = RetNone
        /\ ~poisoned[c]
        /\ reg[c] = Some(2)
        /\ pc[u] = "crit" /\ owner[c] = u /\ op[u] = Op("set", c, 1, "direct")

\* C18: a cell is initialised at most once and initialising never erases a
\* registration: an initialised cell stays initialised; the get_or_init of a
\* set / clear on an initialised cell changes nothing; an initialised slot
\* changes only in the guarded statement of a set or clear; and an address
\* leaves the slot for None only by a finished clear.
C18_InitOnceKeepsSlot ==
    [][\A c \in Cells :
        /\ inner[c].init => inner'[c].init
        /\ \A t \in Threads :
               (pc[t] = "idle" /\ pc'[t] = "lock" /\ op'[t].cell = c /\ inner[c].init)
                   => inner'[c] = inner[c]
        /\ (inner[c].init /\ inner'[c] # inner[c])
               => \E t \in Threads : (SetDone(t) \/ ClearDone(t)) /\ op[t].cell = c
        /\ (inner[c].data.some /\ ~inner'[c].data.some)
               => \E t \in Threads : ClearDone(t) /\ op[t].cell = c
      ]_vars

\* C18 witness: a set(1) of one thread is finished and the slot holds 1,
\* while the other thread is past the get_or_init of a clear and waits
\* before lock().
C18_Witness ==
    \E c \in Cells : \E t, u \in Threads :
        /\ inner[c] = MutexOf(Some(1))
        /\ pc[t] = "idle" /\ ret[t] = RetUnit /\ wstack[t] = <<>>
        /\ pc[u] = "lock" /\ op[u] = Op("clear", c, 0, "direct")

\* C19: with saves and restores nothing.  Whatever the slot held when with
\* was called, when with returns the slot is empty and no registration is
\* left; if the with was nested in the closure of another with, that closure
\* goes on with its own item no longer registered, and a try_get would give
\* it None.
C19_WithRestoresNothing ==
    [][\A t \in Threads :
        WithReturn(t)
            => /\ inner'[op[t].cell] = MutexOf(None)
               /\ reg'[op[t].cell] = None
               /\ wstack'[t] # <<>>
                      => /\ InBody(t)'
                         /\ held'[t] = None
                         /\ AndThen(inner'[Top(t)'].data, "try_get") = RetNone
      ]_vars

\* C19 witness: only one thread has made calls; it is in the closure of a with
\* on a cell, a with nested in that closure on the same cell has returned 1,
\* and the slot is empty.
C19_Witness ==
    \E c \in Cells : \E t, u \in Threads :
        /\ ret[u] = RetStart
        /\ pc[t] = "idle" /\ wstack[t] = <<c>>
        /\ ret[t] = Ret("res", 1)
        /\ inner[c] = MutexOf(None)
        /\ held[t] = None

====
